---------------------------- MODULE Spec2Model ----------------------------
(***************************************************************************)
(* Model of src/prover/simple_verifier.rs: `main` resolves the notary key  *)
(* (notary_pubkey), reads and deserializes the proof, verifies the session *)
(* proof, opens the substring commitments, redacts the transcripts with    *)
(* 'X' and prints them.  Every `.unwrap()` on an Err is a panic.           *)
(*                                                                         *)
(* The bodies of the tlsn_core calls (SessionProof::verify_with_default_   *)
(* cert_verifier, SubstringsProof::verify, RedactedTranscript::            *)
(* set_redacted) are not part of the repository; they are modelled from    *)
(* sections 4.1-4.4 of the design specification.                           *)
(***************************************************************************)
EXTENDS Integers, Sequences, FiniteSets, TLC

\* ------------------------------------------------------------------ bounds
\* Committed length of each direction of the transcript.
MaxLen == 2
\* Largest number of disclosed ranges (openings) in a SubstringsProof.
MaxOpenings == 2
\* Number of times the verifier is run on the same artifact.
MaxRuns == 2

\* --------------------------------------------------------------- constants
\* b'X', the byte passed to set_redacted.
SentinelX == 88
\* A freshly built RedactedTranscript holds 0 where nothing was disclosed.
UnsetByte == 0
\* Last instant at which the recorded certificate chain is valid.
CertNotAfter == 1750000000

Keys == {"K1", "K2"}
Times == {1700000000, 1800000000}
CertName == "api.example.com"
Names == {"api.example.com", "other.example.com"}
Dirs == {"sent", "recv"}

\* The bytes the notary committed to, as prefixes of "\xC3\xA9GET" (sent) and
\* "O\xC3\xA9K\n" (received); the pattern repeats beyond its length.
SentPattern == <<195, 169, 71, 69, 84>>
RecvPattern == <<79, 195, 169, 75, 10>>

CommittedByte(dir, i) ==
    IF dir = "sent" THEN SentPattern[(i % Len(SentPattern)) + 1]
    ELSE RecvPattern[(i % Len(RecvPattern)) + 1]

\* header.sent_len() / header.recv_len()
TotalLen(dir) == MaxLen

\* --------------------------------------------------------- the proof artifact
\* A disclosed range [start, end) of one direction (0-based, end exclusive);
\* end may exceed the committed length by one (an out-of-bounds range).
Openings ==
    { [dir |-> d, start |-> s, end |-> e] :
        d \in Dirs, s \in 0..(MaxLen + 1), e \in 0..(MaxLen + 1) }

RangeUniverse == { o \in Openings : o.start <= o.end }

RECURSIVE SetsUpTo(_, _)
SetsUpTo(U, k) ==
    IF k = 0 THEN {{}}
    ELSE LET S == SetsUpTo(U, k - 1)
         IN  S \cup { s \cup {a} : s \in S, a \in U }

\* SessionProof: the notary that signed the header, the asserted server name
\* and the attested time.  SubstringsProof: the disclosed ranges; `tampered`
\* says that the first disclosed byte of the lowest non-empty range was changed.
SessionProofs ==
    [signer : Keys, server_name : Names, time : Times]

SubstringsProofs ==
    [openings : SetsUpTo(RangeUniverse, MaxOpenings), tampered : BOOLEAN]

TlsProofs == [session : SessionProofs, substrings : SubstringsProofs]

NoProof ==
    [session |-> [signer |-> "K1", server_name |-> CertName, time |-> 0],
     substrings |-> [openings |-> {}, tampered |-> FALSE]]

\* What "simple_proof.json" can hold.
Artifacts ==
    { [state |-> "missing", proof |-> NoProof],
      [state |-> "malformed", proof |-> NoProof] }
    \cup { [state |-> "json", proof |-> p] : p \in TlsProofs }

UnreadArtifact == [state |-> "unread", proof |-> NoProof]


\* ------------------------------------------- tlsn_core, from spec 4.1 - 4.4
\* 4.1: the signature over the header verifies under the key that signed it.
SignatureOk(session, key) == session.signer = key

\* 4.2: chain valid at the attested time, leaf valid for the asserted name.
IdentityError(session) ==
    IF session.time > CertNotAfter THEN "InvalidCertificateChain"
    ELSE IF session.server_name # CertName THEN "HostnameMismatch"
    ELSE "none"

\* SessionProof::verify_with_default_cert_verifier: the checks run and the
\* error returned ("none" for Ok(())).
SessionVerify(session, key) ==
    IF ~SignatureOk(session, key)
    THEN [err |-> "InvalidSignature", steps |-> <<"signature">>]
    ELSE [err |-> IdentityError(session), steps |-> <<"signature", "identity">>]

Positions(o) == o.start..(o.end - 1)

Rank(o) ==
    (IF o.dir = "sent" THEN 0 ELSE 1) * (MaxLen + 2) * (MaxLen + 2)
    + o.start * (MaxLen + 2) + o.end

\* The opening whose first byte was changed, if any.
TamperedOpening(sp) ==
    LET NE == { o \in sp.openings : o.start < o.end }
    IN  IF sp.tampered /\ NE # {}
        THEN { CHOOSE o \in NE : \A p \in NE : Rank(o) <= Rank(p) }
        ELSE {}

\* The byte the proof discloses for position i of opening o.
DisclosedByte(sp, o, i) ==
    IF o \in TamperedOpening(sp) /\ i = o.start
    THEN (CommittedByte(o.dir, i) + 1) % 256
    ELSE CommittedByte(o.dir, i)

InBounds(o) == o.end <= TotalLen(o.dir)

Overlapping(sp) ==
    \E a, b \in sp.openings :
        a # b /\ a.dir = b.dir /\ Positions(a) \cap Positions(b) # {}

OpeningMatches(sp, o) ==
    \A i \in Positions(o) : DisclosedByte(sp, o, i) = CommittedByte(o.dir, i)

\* 4.3: the error kinds a SubstringsProof gives rise to; the proof is valid
\* when there is none.  Which of several is returned is left open.
SubstringsErrors(sp) ==
    (IF \E o \in sp.openings : ~InBounds(o) THEN {"RangeOutOfBounds"} ELSE {})
    \cup (IF Overlapping(sp) THEN {"OverlappingRanges"} ELSE {})
    \cup (IF \E o \in sp.openings : ~OpeningMatches(sp, o)
          THEN {"CommitmentMismatch"} ELSE {})

Covered(sp, dir) ==
    { i \in 0..(TotalLen(dir) - 1) :
        \E o \in sp.openings : o.dir = dir /\ i \in Positions(o) }

\* RedactedTranscript as SubstringsProof::verify returns it: the disclosed
\* bytes in place, the remaining positions not yet set.
Reconstruct(sp, dir) ==
    [data |->
        [k \in 1..TotalLen(dir) |->
            IF (k - 1) \in Covered(sp, dir)
            THEN LET o == CHOOSE o \in sp.openings :
                              o.dir = dir /\ (k - 1) \in Positions(o)
                 IN  DisclosedByte(sp, o, k - 1)
            ELSE UnsetByte],
     auth |-> Covered(sp, dir)]

NoTranscript == [data |-> <<>>, auth |-> {}]

\* RedactedTranscript::set_redacted(value)
SetRedacted(t, value) ==
    [t EXCEPT !.data =
        [k \in 1..Len(t.data) |-> IF (k - 1) \in t.auth THEN t.data[k] ELSE value]]

\* ------------------------------------------------------ std / p256 helpers
IsCont(b) == b >= 128 /\ b <= 191

\* String::from_utf8 succeeds exactly on well-formed UTF-8.
RECURSIVE ValidUtf8(_)
ValidUtf8(s) ==
    IF s = <<>> THEN TRUE
    ELSE LET b == s[1]
             n == Len(s)
         IN  IF b <= 127 THEN ValidUtf8(Tail(s))
             ELSE IF b >= 194 /\ b <= 223
                  THEN n >= 2 /\ IsCont(s[2]) /\ ValidUtf8(SubSeq(s, 3, n))
             ELSE IF b >= 224 /\ b <= 239
                  THEN /\ n >= 3
                       /\ IsCont(s[2]) /\ IsCont(s[3])
                       /\ (b = 224 => s[2] >= 160)
                       /\ (b = 237 => s[2] <= 159)
                       /\ ValidUtf8(SubSeq(s, 4, n))
             ELSE IF b >= 240 /\ b <= 244
                  THEN /\ n >= 4
                       /\ IsCont(s[2]) /\ IsCont(s[3]) /\ IsCont(s[4])
                       /\ (b = 240 => s[2] >= 144)
                       /\ (b = 244 => s[2] <= 143)
                       /\ ValidUtf8(SubSeq(s, 5, n))
             ELSE FALSE

\* The publicKey strings the /info endpoint can return, and
\* p256::PublicKey::from_public_key_pem on them ("error" for Err).
PemStrings == {"PEM K1", "PEM K2", "not a pem"}

FromPublicKeyPem(s) ==
    IF s = "PEM K1" THEN "K1" ELSE IF s = "PEM K2" THEN "K2" ELSE "error"

\* Bodies of the HTTP response: not the JSON of an InfoResponse, or one.
Bodies == {"not json"} \cup PemStrings

\* ------------------------------------------------------------------- state
VARIABLES
    run,                \* which run of the verifier this is
    pc,                 \* position of main (or "panicked", "done")
    net,                \* what the notary's endpoint does with the request
    response,           \* body of the HTTP response
    info_response,      \* InfoResponse.public_key
    notary_public_key,  \* the resolved NotaryKey
    artifact,           \* contents of simple_proof.json
    proof,              \* the deserialized TlsProof
    sig_ok,             \* the notary signature verified under notary_public_key
    time,               \* header.time()
    sent, recv,         \* the RedactedTranscripts
    log,                \* the steps executed in this run, in order
    used,               \* fields of the SessionProof read by main
    stdout,             \* what this run printed
    err,                \* the error of the failed step
    outputs             \* stdout of each completed run

vars ==
    <<run, pc, net, response, info_response, notary_public_key, artifact, proof,
      sig_ok, time, sent, recv, log, used, stdout, err, outputs>>

NoOutput == [announce |-> <<>>, sent |-> <<>>, recv |-> <<>>]

\* The locals of a run before main has executed anything.
FreshRun ==
    /\ pc = "send"
    /\ net = "idle"
    /\ response = "none"
    /\ info_response = "none"
    /\ notary_public_key = "none"
    /\ proof = NoProof
    /\ sig_ok = FALSE
    /\ time = 0
    /\ sent = NoTranscript
    /\ recv = NoTranscript
    /\ log = <<>>
    /\ used = {}
    /\ stdout = NoOutput
    /\ err = "none"

Init ==
    /\ run = 1
    /\ artifact = UnreadArtifact
    /\ outputs = [r \in 1..MaxRuns |-> NoOutput]
    /\ FreshRun

\* `.unwrap()` on an Err, or `?` up to the unwrap of line 35: the run panics
\* with that error and nothing else changes.
Panic(e) ==
    /\ pc' = "panicked"
    /\ err' = e

\* -------------------------------------------------------------- notary_pubkey
\* client.get(url).send(): the request goes out; the client has no timeout.
Send ==
    /\ pc = "send"
    /\ \E n \in {"unreachable", "silent", "responding"} : net' = n
    /\ pc' = "await_response"
    /\ UNCHANGED <<run, response, info_response, notary_public_key, artifact,
                   proof, sig_ok, time, sent, recv, log, used, stdout, err,
                   outputs>>

\* `.await?` on send(): an error when the notary cannot be reached, the
\* response when one arrives; nothing while the notary stays silent.
AwaitResponse ==
    /\ pc = "await_response"
    /\ net # "silent"
    /\ IF net = "unreachable"
       THEN /\ Panic("KeyResolutionFailed")
            /\ UNCHANGED response
       ELSE /\ \E b \in Bodies : response' = b
            /\ pc' = "json"
            /\ UNCHANGED err
    /\ UNCHANGED <<run, net, info_response, notary_public_key, artifact, proof,
                   sig_ok, time, sent, recv, log, used, stdout, outputs>>

\* response.json().await?
ParseJson ==
    /\ pc = "json"
    /\ IF response = "not json"
       THEN /\ Panic("KeyResolutionFailed")
            /\ UNCHANGED info_response
       ELSE /\ info_response' = response
            /\ pc' = "pem"
            /\ UNCHANGED err
    /\ UNCHANGED <<run, net, response, notary_public_key, artifact, proof,
                   sig_ok, time, sent, recv, log, used, stdout, outputs>>

\* p256::PublicKey::from_public_key_pem(..).unwrap(); Ok(public_key)
ParsePem ==
    /\ pc = "pem"
    /\ log' = Append(log, "key_parse")
    /\ IF FromPublicKeyPem(info_response) = "error"
       THEN /\ Panic("KeyResolutionFailed")
            /\ UNCHANGED notary_public_key
       ELSE /\ notary_public_key' = FromPublicKeyPem(info_response)
            /\ pc' = "read_file"
            /\ UNCHANGED err
    /\ UNCHANGED <<run, net, response, info_response, artifact, proof, sig_ok,
                   time, sent, recv, used, stdout, outputs>>

\* ------------------------------------------------------------------------ main
\* std::fs::read_to_string("simple_proof.json").unwrap(): the file holds the
\* same contents in every run.
ReadFile ==
    /\ pc = "read_file"
    /\ IF artifact.state = "unread"
       THEN \E a \in Artifacts : artifact' = a
       ELSE UNCHANGED artifact
    /\ IF artifact'.state = "missing"
       THEN Panic("IoError")
       ELSE /\ pc' = "deserialize"
            /\ UNCHANGED err
    /\ UNCHANGED <<run, net, response, info_response, notary_public_key, proof,
                   sig_ok, time, sent, recv, log, used, stdout, outputs>>

\* Deserialize, but header.time() is read as soon as the proof is parsed,
\* before the session proof is verified.
Deserialize_ReadsHeaderEarly ==
    /\ pc = "deserialize"
    /\ IF artifact.state = "malformed"
       THEN /\ Panic("MalformedProof")
            /\ UNCHANGED <<proof, time, used>>
       ELSE /\ proof' = artifact.proof
            /\ time' = artifact.proof.session.time
            /\ used' = used \cup {"header.time"}
            /\ pc' = "session_verify"
            /\ UNCHANGED err
    /\ UNCHANGED <<run, net, response, info_response, notary_public_key,
                   artifact, sig_ok, sent, recv, log, stdout, outputs>>

\* Deserialize, but a deserialization failure falls back to a default proof
\* (unwrap_or_default) instead of ending the run.
Deserialize_DefaultsOnError ==
    /\ pc = "deserialize"
    /\ proof' = artifact.proof
    /\ pc' = "session_verify"
    /\ UNCHANGED <<run, net, response, info_response, notary_public_key,
                   artifact, sig_ok, time, sent, recv, log, used, stdout, err,
                   outputs>>

\* serde_json::from_str(proof.as_str()).unwrap()
Deserialize ==
    /\ pc = "deserialize"
    /\ IF artifact.state = "malformed"
       THEN /\ Panic("MalformedProof")
            /\ UNCHANGED proof
       ELSE /\ proof' = artifact.proof
            /\ pc' = "session_verify"
            /\ UNCHANGED err
    /\ UNCHANGED <<run, net, response, info_response, notary_public_key,
                   artifact, sig_ok, time, sent, recv, log, used, stdout,
                   outputs>>

\* VerifySession, but the Result is dropped instead of unwrapped.
VerifySession_IgnoresError ==
    /\ pc = "session_verify"
    /\ LET r == SessionVerify(proof.session, notary_public_key)
       IN  /\ log' = log \o r.steps
           /\ sig_ok' = SignatureOk(proof.session, notary_public_key)
    /\ pc' = "header_time"
    /\ UNCHANGED <<run, net, response, info_response, notary_public_key,
                   artifact, proof, time, sent, recv, used, stdout, err,
                   outputs>>

\* session.verify_with_default_cert_verifier(notary_public_key).unwrap()
VerifySession ==
    /\ pc = "session_verify"
    /\ LET r == SessionVerify(proof.session, notary_public_key)
       IN  /\ log' = log \o r.steps
           /\ sig_ok' = SignatureOk(proof.session, notary_public_key)
           /\ IF r.err # "none"
              THEN Panic(r.err)
              ELSE /\ pc' = "header_time"
                   /\ UNCHANGED err
    /\ UNCHANGED <<run, net, response, info_response, notary_public_key,
                   artifact, proof, time, sent, recv, used, stdout, outputs>>

\* HeaderTime, but the time shown is the clock's (Utc::now()) and not the
\* attested one.
HeaderTime_WallClock ==
    /\ pc = "header_time"
    /\ \E now \in Times : time' = now
    /\ used' = used \cup {"header.time"}
    /\ pc' = "substrings_verify"
    /\ UNCHANGED <<run, net, response, info_response, notary_public_key,
                   artifact, proof, sig_ok, sent, recv, log, stdout, err,
                   outputs>>

\* let time = UNIX_EPOCH + Duration::from_secs(header.time())
HeaderTime ==
    /\ pc = "header_time"
    /\ time' = proof.session.time
    /\ used' = used \cup {"header.time"}
    /\ pc' = "substrings_verify"
    /\ UNCHANGED <<run, net, response, info_response, notary_public_key,
                   artifact, proof, sig_ok, sent, recv, log, stdout, err,
                   outputs>>

\* VerifySubstrings, but on an error the ranges opened so far are kept and
\* the run goes on.
VerifySubstrings_KeepsPartial ==
    /\ pc = "substrings_verify"
    /\ used' = used \cup {"header"}
    /\ log' = Append(log, "commitment_opening")
    /\ sent' = Reconstruct(proof.substrings, "sent")
    /\ recv' = Reconstruct(proof.substrings, "recv")
    /\ pc' = "redact_sent"
    /\ UNCHANGED <<run, net, response, info_response, notary_public_key,
                   artifact, proof, sig_ok, time, stdout, err, outputs>>

\* let (mut sent, mut recv) = substrings.verify(&header).unwrap()
VerifySubstrings ==
    /\ pc = "substrings_verify"
    /\ used' = used \cup {"header"}
    /\ log' = Append(log, "commitment_opening")
    /\ IF SubstringsErrors(proof.substrings) = {}
       THEN /\ sent' = Reconstruct(proof.substrings, "sent")
            /\ recv' = Reconstruct(proof.substrings, "recv")
            /\ pc' = "redact_sent"
            /\ UNCHANGED err
       ELSE /\ \E e \in SubstringsErrors(proof.substrings) : Panic(e)
            /\ UNCHANGED <<sent, recv>>
    /\ UNCHANGED <<run, net, response, info_response, notary_public_key,
                   artifact, proof, sig_ok, time, stdout, outputs>>

\* sent.set_redacted(b'X')
RedactSent ==
    /\ pc = "redact_sent"
    /\ sent' = SetRedacted(sent, SentinelX)
    /\ log' = Append(log, "set_redacted_sent")
    /\ pc' = "redact_recv"
    /\ UNCHANGED <<run, net, response, info_response, notary_public_key,
                   artifact, proof, sig_ok, time, recv, used, stdout, err,
                   outputs>>

\* RedactRecv, but `sent` is redacted a second time and `recv` not at all.
RedactRecv_RedactsSentAgain ==
    /\ pc = "redact_recv"
    /\ sent' = SetRedacted(sent, SentinelX)
    /\ log' = Append(log, "set_redacted_recv")
    /\ pc' = "print_success"
    /\ UNCHANGED <<run, net, response, info_response, notary_public_key,
                   artifact, proof, sig_ok, time, recv, used, stdout, err,
                   outputs>>

\* recv.set_redacted(b'X')
RedactRecv ==
    /\ pc = "redact_recv"
    /\ recv' = SetRedacted(recv, SentinelX)
    /\ log' = Append(log, "set_redacted_recv")
    /\ pc' = "print_success"
    /\ UNCHANGED <<run, net, response, info_response, notary_public_key,
                   artifact, proof, sig_ok, time, sent, used, stdout, err,
                   outputs>>

\* println!("Successfully verified ... {:?} at {}.", server_name, time)
PrintSuccess ==
    /\ pc = "print_success"
    /\ stdout' = [stdout EXCEPT
                    !.announce = <<[server_name |-> proof.session.server_name,
                                    time |-> time]>>]
    /\ used' = used \cup {"session_info.server_name"}
    /\ pc' = "print_sent"
    /\ UNCHANGED <<run, net, response, info_response, notary_public_key,
                   artifact, proof, sig_ok, time, sent, recv, log, err,
                   outputs>>

\* print!("{}", String::from_utf8(sent.data().to_vec()).unwrap())
PrintSent ==
    /\ pc = "print_sent"
    /\ IF ValidUtf8(sent.data)
       THEN /\ stdout' = [stdout EXCEPT !.sent = <<sent.data>>]
            /\ pc' = "print_recv"
            /\ UNCHANGED err
       ELSE /\ Panic("FromUtf8Error")
            /\ UNCHANGED stdout
    /\ UNCHANGED <<run, net, response, info_response, notary_public_key,
                   artifact, proof, sig_ok, time, sent, recv, log, used,
                   outputs>>

\* println!("{}", String::from_utf8(recv.data().to_vec()).unwrap()); main
\* returns.
PrintRecv ==
    /\ pc = "print_recv"
    /\ IF ValidUtf8(recv.data)
       THEN /\ stdout' = [stdout EXCEPT !.recv = <<recv.data>>]
            /\ outputs' = [outputs EXCEPT ![run] = stdout']
            /\ pc' = "done"
            /\ UNCHANGED err
       ELSE /\ Panic("FromUtf8Error")
            /\ UNCHANGED <<stdout, outputs>>
    /\ UNCHANGED <<run, net, response, info_response, notary_public_key,
                   artifact, proof, sig_ok, time, sent, recv, log, used>>

\* The verifier is started again on the same simple_proof.json.
Rerun ==
    /\ pc = "done"
    /\ run < MaxRuns
    /\ run' = run + 1
    /\ pc' = "send"
    /\ net' = "idle"
    /\ response' = "none"
    /\ info_response' = "none"
    /\ notary_public_key' = "none"
    /\ proof' = NoProof
    /\ sig_ok' = FALSE
    /\ time' = 0
    /\ sent' = NoTranscript
    /\ recv' = NoTranscript
    /\ log' = <<>>
    /\ used' = {}
    /\ stdout' = NoOutput
    /\ err' = "none"
    /\ UNCHANGED <<artifact, outputs>>

Next ==
    \/ Send
    \/ AwaitResponse
    \/ ParseJson
    \/ ParsePem
    \/ ReadFile
    \/ Deserialize
    \/ VerifySession
    \/ HeaderTime
    \/ VerifySubstrings
    \/ RedactSent
    \/ RedactRecv
    \/ PrintSuccess
    \/ PrintSent
    \/ PrintRecv
    \/ Rerun

Spec == Init /\ [][Next]_vars

\* ------------------------------------------------------------ shared notions
InLog(step) == \E i \in DOMAIN log : log[i] = step

IsVerificationStep(step) == step # "key_parse"

\* The steps of the verification pipeline executed so far in this run.
VerificationLog == SelectSeq(log, IsVerificationStep)

StepOrder ==
    <<"signature", "identity", "commitment_opening",
      "set_redacted_sent", "set_redacted_recv">>

IsPrefix(a, b) == Len(a) <= Len(b) /\ a = SubSeq(b, 1, Len(a))

SessionErrorKinds ==
    {"InvalidSignature", "InvalidCertificateChain", "HostnameMismatch"}

SubstringsErrorKinds ==
    {"CommitmentMismatch", "OverlappingRanges", "RangeOutOfBounds"}

StepOf(e) ==
    IF e = "InvalidSignature" THEN "signature"
    ELSE IF e \in SessionErrorKinds THEN "identity"
    ELSE "commitment_opening"

AllRangesValidated(sp) ==
    /\ \A o \in sp.openings : InBounds(o) /\ OpeningMatches(sp, o)
    /\ ~Overlapping(sp)

RedactionFinished == InLog("set_redacted_recv")

TranscriptOf(dir) == IF dir = "sent" THEN sent ELSE recv

\* ------------------------------------------------------------------ claims
\* C1: the verification steps run in the fixed order signature, identity,
\* commitment opening, set_redacted (sent, then received), each at most once;
\* a step that fails is the last one executed and the error reported is its
\* own.
C1_FixedOrderShortCircuit ==
    /\ IsPrefix(VerificationLog, StepOrder)
    /\ (err \in SessionErrorKinds \cup SubstringsErrorKinds =>
            /\ pc = "panicked"
            /\ VerificationLog # <<>>
            /\ VerificationLog[Len(VerificationLog)] = StepOf(err))
    /\ (InLog("commitment_opening") =>
            SessionVerify(proof.session, notary_public_key).err = "none")
    /\ (InLog("set_redacted_sent") => SubstringsErrors(proof.substrings) = {})

C1_Witness ==
    /\ pc = "panicked"
    /\ err = "OverlappingRanges"
    /\ VerificationLog = <<"signature", "identity", "commitment_opening">>

\* C2: header.time(), session_info.server_name and the header handed to
\* substrings.verify are read only once the notary signature over the header
\* has verified under the resolved key.
C2_NothingTrustedBeforeSignature ==
    (used # {} \/ time # 0) => sig_ok

C2_Witness ==
    /\ pc = "done"
    /\ used = {"header.time", "header", "session_info.server_name"}

\* C3: when any disclosed range fails in substrings.verify the run fails and
\* no RedactedTranscript is built, redacted or printed; a transcript exists
\* only when every range of both directions has been validated.
C3_NoPartialSuccess ==
    /\ (sent # NoTranscript \/ recv # NoTranscript \/ stdout # NoOutput =>
            AllRangesValidated(proof.substrings))
    /\ (pc \in {"header_time", "substrings_verify"} =>
            sent = NoTranscript /\ recv = NoTranscript /\ stdout = NoOutput)
    /\ (InLog("commitment_opening")
            /\ ~AllRangesValidated(proof.substrings) =>
            /\ pc = "panicked"
            /\ err \in SubstringsErrorKinds
            /\ sent = NoTranscript /\ recv = NoTranscript
            /\ stdout = NoOutput)

C3_Witness ==
    /\ pc = "panicked"
    /\ err = "CommitmentMismatch"
    /\ \E o \in proof.substrings.openings :
          /\ o.start < o.end
          /\ InBounds(o)
          /\ OpeningMatches(proof.substrings, o)

\* C4: a key-resolver request that gets no answer does not leave the run
\* waiting: the await on send() can always complete.
C4_KeyResolverNeverHangs ==
    pc = "await_response" => ENABLED AwaitResponse

\* C5: a failed step reaches the caller as an error value, never as an
\* abnormal termination of the run.
C5_ErrorsAreResultValues ==
    err # "none" => pc # "panicked"

\* C6 (as claimed): when the artifact fails to deserialize, no cryptographic
\* step, key parsing included, has run.
C6_NoCryptoBeforeMalformedProof ==
    err = "MalformedProof" =>
        \A i \in DOMAIN log :
            log[i] \notin {"key_parse", "signature", "identity",
                           "commitment_opening"}

\* C6 (amended): signature verification, certificate validation and
\* commitment opening run only on a successfully deserialized artifact, and a
\* deserialization failure ends the run before any of them; the notary key is
\* resolved and parsed before the artifact is read.
C6_NoVerificationBeforeMalformedProof ==
    /\ (err = "MalformedProof" => pc = "panicked" /\ log = <<"key_parse">>)
    /\ (VerificationLog # <<>> =>
            artifact.state = "json" /\ proof = artifact.proof)
    /\ (artifact.state # "unread" => InLog("key_parse") \/ run > 1)

C6_Witness ==
    /\ err = "MalformedProof"
    /\ InLog("key_parse")

\* C7: once both transcripts are redacted, each has the committed length and
\* every position holds the committed byte disclosed by the range covering it
\* or the sentinel 'X'.
C7_ReconstructionComplete ==
    RedactionFinished =>
        \A dir \in Dirs :
            LET t == TranscriptOf(dir)
            IN  /\ Len(t.data) = TotalLen(dir)
                /\ \A i \in 0..(TotalLen(dir) - 1) :
                      IF \E o \in proof.substrings.openings :
                            o.dir = dir /\ i \in Positions(o)
                      THEN /\ t.data[i + 1] = CommittedByte(dir, i)
                           /\ \A o \in proof.substrings.openings :
                                 o.dir = dir /\ i \in Positions(o) =>
                                 t.data[i + 1]
                                     = DisclosedByte(proof.substrings, o, i)
                      ELSE t.data[i + 1] = SentinelX

C7_Witness ==
    /\ RedactionFinished
    /\ Cardinality(proof.substrings.openings) = MaxOpenings
    /\ \E dir \in Dirs :
          /\ Covered(proof.substrings, dir) # {}
          /\ Covered(proof.substrings, dir) # 0..(TotalLen(dir) - 1)

\* C9: two completed runs on the same artifact printed the same server
\* name, time and transcripts.
C9_SameProofSameOutput ==
    /\ \A r1, r2 \in 1..MaxRuns :
          outputs[r1] # NoOutput /\ outputs[r2] # NoOutput =>
              outputs[r1] = outputs[r2]
    /\ (pc = "done" => outputs[run] = stdout /\ stdout # NoOutput)

C9_Witness ==
    /\ run = 2
    /\ pc = "done"
    /\ outputs[1] # NoOutput
    /\ proof.substrings.openings # {}

\* C10: after the "Successfully verified" line is printed the run does not
\* fail.
C10_NoFailureAfterSuccess ==
    stdout.announce # <<>> => pc # "panicked"

=============================================================================
